---- MODULE Spec2Model ----
(***************************************************************************)
(* NeuralRadianceFieldPackedRenderer                                       *)
(* (src/wisp/renderer/core/renderers/radiance_pipeline_renderer.py)        *)
(* driven by its host through the per-frame lifecycle                      *)
(*     pre_render -> needs_refresh -> render -> post_render.               *)
(* The renderer is single-threaded and every method runs to completion,    *)
(* so each method is one action.                                           *)
(***************************************************************************)
EXTENDS Integers, Sequences, FiniteSets, TLC

\* ------------------------------------------------------------------ bounds
MaxNumSteps == 8
MaxBatchSize == 2
MaxRays == 4

\* ------------------------------------------------------- python values
\* Python's None and a non-None value v, kept apart from every v.
None == <<>>
Some(v) == <<v>>
Val(o) == o[1]

Max(a, b) == IF a >= b THEN a ELSE b

\* dict() and dict.get(key, default)
EmptyDict == [k \in {} |-> None]
DictGet(d, k, default) == IF k \in DOMAIN d THEN d[k] ELSE default
\* d[k] = v
DictSet(d, k, v) == [x \in (DOMAIN d) \cup {k} |-> IF x = k THEN v ELSE d[x]]

\* ------------------------------------------------------- input domains
ChannelSets == {{"rgb"}, {"rgb", "depth"}}
BlackClear == <<0, 0, 0>>
ClearColors == {BlackClear, <<1, 1, 1>>}
FarValues == {100}
\* Image sizes: render and output sizes that agree and that differ.
Sizes == {1, 2}

\* FramePayload: what pre_render reads of it.
Payloads ==
    [render_res_x : Sizes, render_res_y : Sizes,
     camera : [width : Sizes, height : Sizes, far : FarValues],
     clear_color : ClearColors, interactive_mode : BOOLEAN,
     channels : ChannelSets]

\* num_steps as given to __init__: omitted (None) or a count.
NumStepsArgs == {None} \cup {Some(n) : n \in 1..MaxNumSteps}

\* A ray set of n rays, in pixel order.
RaySet(n) == [i \in 1..n |-> i]

VARIABLES
    batch_size, num_steps, num_steps_movement, raymarch_type, bg_color,
    tracer_num_steps,
    render_res_x, render_res_y, output_width, output_height, far_clipping,
    channels, last_state,
    \* the last call the host made, its argument and its outcome
    op, payload, rays, tracer_raised, ret, traced, acc,
    \* history
    arg_num_steps, chChanged, uniform

config == <<batch_size, num_steps, num_steps_movement, raymarch_type, arg_num_steps>>
frame == <<render_res_x, render_res_y, output_width, output_height, far_clipping,
           bg_color, tracer_num_steps, channels>>
vars == <<batch_size, num_steps, num_steps_movement, raymarch_type, bg_color,
          tracer_num_steps, render_res_x, render_res_y, output_width,
          output_height, far_clipping, channels, last_state,
          op, payload, rays, tracer_raised, ret, traced, acc, arg_num_steps,
          chChanged, uniform>>

\* ---------------------------------------------------------- __init__
\* if num_steps is None: num_steps = 2
InitNumSteps(arg) == IF arg = None THEN 2 ELSE Val(arg)

\* self.num_steps_movement = max(num_steps // 4, 1)
InitNumStepsMovement(n) == Max(n \div 4, 1)

NoRet == [kind |-> "none"]

Init ==
    /\ batch_size \in 1..MaxBatchSize
    /\ arg_num_steps \in NumStepsArgs
    /\ num_steps = InitNumSteps(arg_num_steps)
    /\ num_steps_movement = InitNumStepsMovement(num_steps)
    /\ raymarch_type = "voxel"
    /\ bg_color = "black"
    \* the tracer instance keeps the step count its own constructor chose
    /\ tracer_num_steps \in 1..MaxNumSteps
    /\ render_res_x = None
    /\ render_res_y = None
    /\ output_width = None
    /\ output_height = None
    /\ far_clipping = None
    /\ channels = None
    /\ last_state = EmptyDict
    /\ op = "init"
    /\ payload = None
    /\ rays = <<>>
    /\ tracer_raised = FALSE
    /\ ret = NoRet
    /\ traced = <<>>
    /\ acc = <<>>
    /\ chChanged = FALSE
    /\ uniform = TRUE

\* ---------------------------------------------------------- pre_render
\* self.bg_color = 'black' if payload.clear_color == (0.0, 0.0, 0.0) else 'white'
BgColorOf(clear_color) == IF clear_color = BlackClear THEN "black" ELSE "white"

\* The two branches of the step count selection exchanged.
SelectNumStepsSwapped(interactive_mode, static, movement) ==
    IF interactive_mode THEN static ELSE movement

\* The interactive count installed whatever the mode.
SelectNumStepsMovement(interactive_mode, static, movement) == movement

\* if payload.interactive_mode: num_steps_movement else: num_steps
SelectNumSteps(interactive_mode, static, movement) ==
    IF interactive_mode THEN movement ELSE static

PreRender(p) ==
    \* the host starts a frame after construction or after the last frame
    /\ op \in {"init", "post_render"}
    /\ render_res_x' = Some(p.render_res_x)
    /\ render_res_y' = Some(p.render_res_y)
    /\ output_width' = Some(p.camera.width)
    /\ output_height' = Some(p.camera.height)
    /\ far_clipping' = Some(p.camera.far)
    /\ bg_color' = BgColorOf(p.clear_color)
    /\ tracer_num_steps' = SelectNumSteps(p.interactive_mode, num_steps, num_steps_movement)
    /\ channels' = Some(p.channels)
    /\ op' = "pre_render"
    /\ payload' = Some(p)
    /\ rays' = <<>>
    /\ tracer_raised' = FALSE
    /\ ret' = NoRet
    /\ traced' = <<>>
    /\ acc' = <<>>
    /\ chChanged' = (Some(p.channels) # DictGet(last_state, "channels", None))
    /\ uniform' = (/\ uniform
                   /\ ~p.interactive_mode
                   /\ (payload = None \/ Val(payload).channels = p.channels))
    /\ UNCHANGED <<config, last_state>>

\* ---------------------------------------------------------- needs_refresh
\* needs_refresh with <= for <.
needs_refresh_le(p) ==
    \/ DictGet(last_state, "num_steps", 0) <= num_steps
    \/ DictGet(last_state, "channels", None) # channels

\* needs_refresh with "and" for "or".
needs_refresh_and(p) ==
    /\ DictGet(last_state, "num_steps", 0) < num_steps
    /\ DictGet(last_state, "channels", None) # channels

\* return self._last_state.get('num_steps', 0) < self.num_steps or
\*        self._last_state.get('channels') != self.channels
needs_refresh(p) ==
    \/ DictGet(last_state, "num_steps", 0) < num_steps
    \/ DictGet(last_state, "channels", None) # channels

NeedsRefresh ==
    /\ op = "pre_render"
    /\ op' = "needs_refresh"
    /\ ret' = [kind |-> "bool", val |-> needs_refresh(Val(payload))]
    /\ rays' = <<>>
    /\ tracer_raised' = FALSE
    /\ traced' = <<>>
    /\ acc' = <<>>
    /\ UNCHANGED <<config, frame, last_state, payload, chChanged, uniform>>

\* ---------------------------------------------------------- render
\* Rays.split(split_size): the ray set cut into consecutive batches of
\* split_size rays, the last one holding the remainder.
RECURSIVE Split(_, _)
Split(rs, size) ==
    IF rs = <<>> THEN <<>>
    ELSE IF Len(rs) <= size THEN <<rs>>
    ELSE <<SubSeq(rs, 1, size)>> \o Split(SubSeq(rs, size + 1, Len(rs)), size)

\* The ray set split one ray too wide.
RayBatchesOversize(rs) == Split(rs, batch_size + 1)

\* for ray_batch in rays.split(self.batch_size)
RayBatches(rs) == Split(rs, batch_size)

\* The arguments render gives the tracer for one batch.
TracerArgs(ray_batch) ==
    [channels |-> channels, rays |-> ray_batch, lod_idx |-> None,
     raymarch_type |-> raymarch_type, num_steps |-> num_steps,
     bg_color |-> bg_color]

\* The tracer: one output row per ray of the batch, each row decided by the
\* ray and by the arguments of the call, not by the other rays of the batch.
TraceRay(r, call) ==
    [ray |-> r, channels |-> call.channels, num_steps |-> call.num_steps,
     bg_color |-> call.bg_color]
Tracer(call) == [i \in 1..Len(call.rays) |-> TraceRay(call.rays[i], call)]

\* RenderBuffer(hit=None): no rows.  a + b: the rows of a, then the rows of b
\* (line 104 reshapes the sum of the per-batch buffers as one row per ray).
RbEmpty == <<>>
RbAdd(a, b) == a \o b

\* rb = self.tracer(...), the earlier batches dropped.
AccumulateOverwrite(rb, part) == part

\* The partial buffer put in front of the buffer.
AccumulatePrepend(rb, part) == RbAdd(part, rb)

\* rb += self.tracer(...)
Accumulate(rb, part) == RbAdd(rb, part)

\* The for loop of render: the buffer and the tracer calls made when it ends.
\* failAt = k > 0: the tracer raises in its k-th call, and render with it.
RECURSIVE RenderLoop(_, _, _, _)
RenderLoop(batches, rb, calls, failAt) ==
    IF batches = <<>> THEN [rb |-> rb, calls |-> calls, raised |-> FALSE]
    ELSE LET call == TracerArgs(Head(batches)) IN
         IF failAt = Len(calls) + 1
         THEN [rb |-> rb, calls |-> Append(calls, call), raised |-> TRUE]
         ELSE RenderLoop(Tail(batches), Accumulate(rb, Tracer(call)),
                         Append(calls, call), failAt)

\* rb.reshape(y, x, -1) needs one row per pixel of the y by x image.
ReshapeOk(rb, y, x) == Len(rb) = y * x

\* Rescaling only when both sizes differ.
OutputShapeBoth(y, x, h, w) ==
    IF x # w /\ y # h THEN <<h, w>> ELSE <<y, x>>

\* rb.reshape(...) then, if the sizes differ, rb.scale(size=(h, w)):
\* the (height, width) of the buffer render returns.
OutputShape(y, x, h, w) ==
    IF x # w \/ y # h THEN <<h, w>> ELSE <<y, x>>

Raised == [kind |-> "raised"]

RenderReturn(rb) ==
    IF ~ReshapeOk(rb, Val(render_res_y), Val(render_res_x)) THEN Raised
    ELSE [kind |-> "buffer",
          shape |-> OutputShape(Val(render_res_y), Val(render_res_x),
                                Val(output_height), Val(output_width))]

Render(rs, failAt) ==
    /\ op = "needs_refresh"
    /\ LET loop == RenderLoop(RayBatches(rs), RbEmpty, <<>>, failAt) IN
        /\ traced' = loop.calls
        /\ acc' = loop.rb
        /\ tracer_raised' = loop.raised
        /\ ret' = IF loop.raised THEN Raised ELSE RenderReturn(loop.rb)
    /\ op' = "render"
    /\ rays' = rs
    /\ UNCHANGED <<config, frame, last_state, payload, chChanged, uniform>>

\* ---------------------------------------------------------- post_render
\* post_render that records the channels alone.
PostRenderStateNoSteps(d, steps, chans) == DictSet(d, "channels", chans)

\* self._last_state['num_steps'] = ...; self._last_state['channels'] = ...
PostRenderState(d, steps, chans) ==
    DictSet(DictSet(d, "num_steps", steps), "channels", chans)

PostRender ==
    \* the host ends the frame once render has returned its buffer; a render
    \* that raised ends the run
    /\ op = "render"
    /\ ret.kind = "buffer"
    /\ last_state' = PostRenderState(last_state, tracer_num_steps, channels)
    /\ op' = "post_render"
    /\ ret' = NoRet
    /\ rays' = <<>>
    /\ tracer_raised' = FALSE
    /\ traced' = <<>>
    /\ acc' = <<>>
    /\ chChanged' = FALSE
    /\ UNCHANGED <<config, frame, payload, uniform>>

\* ---------------------------------------------------------- the host
Next ==
    \/ \E p \in Payloads : PreRender(p)
    \/ NeedsRefresh
    \/ \E n \in 0..MaxRays : \E failAt \in 0..Len(RayBatches(RaySet(n))) :
          Render(RaySet(n), failAt)
    \/ PostRender

Spec == Init /\ [][Next]_vars

\* ================================================================ claims
\* What the last-state cache holds, read without needs_refresh.
LastSteps == IF "num_steps" \in DOMAIN last_state THEN last_state["num_steps"] ELSE 0
LastChannels == IF "channels" \in DOMAIN last_state THEN last_state["channels"] ELSE None

\* The payload of the current frame.
Interactive == Val(payload).interactive_mode
\* render ran its loop to the end (the tracer raised in no call).
LoopDone == op = "render" /\ ~tracer_raised

\* C1: needs_refresh returns true exactly when the step count recorded in the
\* cache (0 when none is recorded) is lower than num_steps, or the channel
\* set recorded in the cache (None when none is recorded) differs from the
\* renderer's channel set.
C1_NeedsRefreshValue ==
    op = "needs_refresh" =>
        /\ ret.kind = "bool"
        /\ ret.val = (LastSteps < num_steps \/ LastChannels # channels)

\* needs_refresh returned true for a changed channel set alone.
C1_Witness ==
    /\ op = "needs_refresh"
    /\ ret.val
    /\ LastSteps >= num_steps
    /\ LastChannels # channels

\* C2 as claimed: after pre_render installed a channel set other than the
\* cached one, needs_refresh is true until post_render; and after post_render
\* committed the frame, needs_refresh is false, for interactive and static
\* frames alike.
C2_Original ==
    /\ chChanged => needs_refresh(payload)
    /\ op = "post_render" => ~needs_refresh(payload)

\* C2 amended: after pre_render installed a channel set other than the cached
\* one, needs_refresh is true until post_render; after post_render committed
\* the frame, needs_refresh is false when the frame was static or num_steps
\* is 1, and true when the frame was interactive and num_steps >= 2.
C2_RefreshAfterCommit ==
    /\ chChanged => needs_refresh(payload)
    /\ op = "post_render" =>
          (needs_refresh(payload) <=> (Interactive /\ num_steps >= 2))

\* post_render committed a static frame whose channel set had changed, and
\* needs_refresh is false.
C2_Witness ==
    /\ op = "post_render"
    /\ ~Interactive
    /\ num_steps >= 2
    /\ ~needs_refresh(payload)

\* C3: render, given render_res_y * render_res_x rays and a tracer that
\* raises in no call, returns a buffer whose height and width are the
\* camera's, as pre_render copied them.
C3_OutputShape ==
    /\ (LoopDone /\ Len(rays) = Val(render_res_y) * Val(render_res_x))
          => ret.kind = "buffer"
    /\ (op = "render" /\ ret.kind = "buffer") =>
          /\ ret.shape = <<Val(output_height), Val(output_width)>>
          /\ ret.shape = <<Val(payload).camera.height, Val(payload).camera.width>>

\* render returned a rescaled buffer traced in several batches.
C3_Witness ==
    /\ op = "render"
    /\ ret.kind = "buffer"
    /\ render_res_x # output_width
    /\ render_res_y = output_height
    /\ Len(traced) >= 2

\* The rays of the tracer calls, in call order.
RECURSIVE TracedRays(_)
TracedRays(calls) ==
    IF calls = <<>> THEN <<>> ELSE Head(calls).rays \o TracedRays(Tail(calls))

IsPrefix(a, b) == Len(a) <= Len(b) /\ SubSeq(b, 1, Len(a)) = a

\* C4: the batches render hands to the tracer, in call order, are the input
\* rays in input order, each ray once: every batch holds between 1 and
\* batch_size rays, the calls made cover a prefix of the input, the whole of
\* it when no call raised, and an empty ray set means no call.
C4_BatchesPartition ==
    op = "render" =>
        /\ \A i \in 1..Len(traced) :
              Len(traced[i].rays) >= 1 /\ Len(traced[i].rays) <= batch_size
        /\ IsPrefix(TracedRays(traced), rays)
        /\ ~tracer_raised => TracedRays(traced) = rays
        /\ rays = <<>> => traced = <<>>

\* A render whose last batch is shorter than the others.
C4_Witness ==
    /\ LoopDone
    /\ Len(traced) >= 2
    /\ Len(traced[Len(traced)].rays) < batch_size

\* C5: the buffer the batch loop accumulated equals the buffer the tracer
\* returns for the whole ray set in one call.
C5_BatchedEqualsSingle ==
    LoopDone => acc = Tracer(TracerArgs(rays))

\* A render of three rays in two batches.
C5_Witness ==
    /\ LoopDone
    /\ Len(rays) = 3
    /\ Len(traced) = 2

\* C6: num_steps is the count given to __init__, 2 when none was given;
\* num_steps_movement is num_steps // 4, at least 1, and lies in
\* 1..num_steps; after pre_render the tracer's count is num_steps_movement for
\* an interactive payload and num_steps for a static one.
C6_StepCounts ==
    /\ arg_num_steps = None => num_steps = 2
    /\ arg_num_steps # None => num_steps = Val(arg_num_steps)
    /\ num_steps < 4 => num_steps_movement = 1
    /\ num_steps >= 4 =>
          /\ 4 * num_steps_movement <= num_steps
          /\ num_steps < 4 * num_steps_movement + 4
    /\ 1 <= num_steps_movement /\ num_steps_movement <= num_steps
    /\ op = "pre_render" =>
          tracer_num_steps = IF Interactive THEN num_steps_movement ELSE num_steps

\* pre_render installed an interactive count of 2, a quarter of num_steps.
C6_Witness ==
    /\ op = "pre_render"
    /\ Interactive
    /\ num_steps = 8
    /\ tracer_num_steps = 2

\* C7: every tracer call render makes is given the step count pre_render
\* selected for the frame, which is the count post_render then records.
C7_TracedWithSelectedSteps ==
    op = "render" =>
        \A i \in 1..Len(traced) :
            /\ traced[i].num_steps = tracer_num_steps
            /\ traced[i].num_steps =
                  PostRenderState(last_state, tracer_num_steps, channels)["num_steps"]

\* The program variables pre_render copies from the payload.
FrameParameters ==
    <<render_res_x, render_res_y, output_width, output_height, far_clipping,
      bg_color, tracer_num_steps, channels>>
Configured == <<batch_size, num_steps, num_steps_movement, raymarch_type>>

\* C8: post_render sets the cache to the tracer's step count and the channel
\* set and changes nothing else; no other method writes the cache;
\* needs_refresh and render change no frame parameter.
C8_FrameEffects ==
    [][/\ op' = "post_render" =>
            /\ last_state' = [num_steps |-> tracer_num_steps, channels |-> channels]
            /\ UNCHANGED <<FrameParameters, Configured>>
       /\ op' # "post_render" => UNCHANGED last_state
       /\ op' \in {"needs_refresh", "render"} =>
            UNCHANGED <<FrameParameters, Configured>>]_vars

\* post_render committed an interactive frame: the cache holds the tracer's
\* count, lower than num_steps, and the frame's channel set.
C8_Witness ==
    /\ op = "post_render"
    /\ last_state = [num_steps |-> tracer_num_steps, channels |-> channels]
    /\ tracer_num_steps < num_steps

\* The partial buffers of the tracer calls of the last render.
Partials == [i \in 1..Len(traced) |-> Tracer(traced[i])]

\* Every buffer that adding the buffers of ps, in this order, can yield,
\* over all ways of grouping the additions.
RECURSIVE Groupings(_)
Groupings(ps) ==
    IF Len(ps) = 0 THEN {RbEmpty}
    ELSE IF Len(ps) = 1 THEN {ps[1]}
    ELSE UNION {{RbAdd(a, b) : a \in Groupings(SubSeq(ps, 1, j)),
                               b \in Groupings(SubSeq(ps, j + 1, Len(ps)))}
                : j \in 1..(Len(ps) - 1)}

Orders(k) == {f \in [1..k -> 1..k] : \A i, j \in 1..k : f[i] = f[j] => i = j}
Reorder(ps, f) == [i \in 1..Len(ps) |-> ps[f[i]]]

C10_Settles ==
    /\ [](uniform => (needs_refresh(payload) <=> last_state = EmptyDict))
    /\ [][(~needs_refresh(payload) /\ needs_refresh(payload)') =>
            \/ op' = "pre_render" /\ channels' # channels
            \/ /\ op' = "post_render"
               /\ Interactive
               /\ tracer_num_steps < num_steps]_vars

\* In a second static frame with the same channels needs_refresh returned
\* false.
C10_Witness ==
    /\ uniform
    /\ op = "needs_refresh"
    /\ last_state # EmptyDict
    /\ ~ret.val

====
